---- MODULE Spec2Model ----
(***************************************************************************)
(* Model of src/SizedIntLiterals.h: the fixed-size integer literal         *)
(* suffixes _u8 .. _i64, _z.  A literal operator template receives the     *)
(* characters of the literal token, createValue folds them into an         *)
(* unsigned 64-bit accumulator, and checkValid_<type> range-checks the     *)
(* accumulator with a static_assert and narrows it to the target type.     *)
(*                                                                         *)
(* TLC integers are 32 bits wide, so a u64 is kept as eight 8-bit limbs,   *)
(* least significant first, and every u64 operation wraps modulo 2^64 as   *)
(* the C++ unsigned arithmetic does.  Unbounded naturals ("Big") are limb  *)
(* sequences of any length; they carry the mathematical value of a         *)
(* literal, which the program never computes.                              *)
(***************************************************************************)
EXTENDS Integers, Sequences, FiniteSets, TLC

\* Longest digit body of the exhaustively enumerated short literals.
MaxLen == 2

\* using u64 = std::uint64_t: eight limbs of eight bits.
U64Limbs == 8
LimbBase == 256

-----------------------------------------------------------------------------
(* Source characters and their codes in the execution character set.       *)

Decimals == <<"0","1","2","3","4","5","6","7","8","9">>
Lowers == <<"a","b","c","d","e","f","g","h","i","j","k","l","m",
            "n","o","p","q","r","s","t","u","v","w","x","y","z">>
Uppers == <<"A","B","C","D","E","F","G","H","I","J","K","L","M",
            "N","O","P","Q","R","S","T","U","V","W","X","Y","Z">>

IndexOf(seq, c) == CHOOSE i \in 1..Len(seq) : seq[i] = c

InSeq(seq, c) == \E i \in 1..Len(seq) : seq[i] = c

Ord(c) ==
  IF InSeq(Decimals, c) THEN 47 + IndexOf(Decimals, c)
  ELSE IF InSeq(Lowers, c) THEN 96 + IndexOf(Lowers, c)
  ELSE IF InSeq(Uppers, c) THEN 64 + IndexOf(Uppers, c)
  ELSE CASE c = "'" -> 39
         [] c = "+" -> 43
         [] c = "-" -> 45
         [] c = "." -> 46

-----------------------------------------------------------------------------
(* Unsigned 64-bit arithmetic on limbs.                                    *)

RECURSIVE Carry(_, _, _)
Carry(cols, k, c) ==
  IF k > U64Limbs THEN <<>>
  ELSE LET t == cols[k] + c
       IN  <<t % LimbBase>> \o Carry(cols, k + 1, t \div LimbBase)

RECURSIVE ColSum(_, _, _, _)
ColSum(a, b, k, i) ==
  IF i > k THEN 0 ELSE a[i] * b[k + 1 - i] + ColSum(a, b, k, i + 1)

\* the values of a u64
U64 == [1..U64Limbs -> 0..(LimbBase - 1)]

\* a * b on u64 (wraps)
U64Times[a \in U64, b \in U64] ==
  Carry([k \in 1..U64Limbs |-> ColSum(a, b, k, 1)], 1, 0)

\* a + b on u64 (wraps)
U64Plus[a \in U64, b \in U64] ==
  Carry([k \in 1..U64Limbs |-> a[k] + b[k]], 1, 0)

RECURSIVE U64LessEqFrom(_, _, _)
U64LessEqFrom(a, b, k) ==
  IF k = 0 THEN TRUE
  ELSE IF a[k] < b[k] THEN TRUE
  ELSE IF a[k] > b[k] THEN FALSE
  ELSE U64LessEqFrom(a, b, k - 1)

\* a <= b on u64
U64LessEq(a, b) == U64LessEqFrom(a, b, U64Limbs)

\* static_cast<u64>(n) of an int n with |n| < 2^24: two's complement
U64FromInt(n) ==
  LET hi == IF n < 0 THEN LimbBase - 1 ELSE 0
  IN  <<n % LimbBase, (n \div LimbBase) % LimbBase,
        (n \div (LimbBase * LimbBase)) % LimbBase, hi, hi, hi, hi, hi>>

U64Zero == U64FromInt(0)

-----------------------------------------------------------------------------
(* The parser, src/SizedIntLiterals.h lines 64-134.                        *)

\* sqrOf with value + value in place of value * value
sqrOf_Doubles(value) == U64Plus[value, value]

sqrOf(value) == U64Times[value, value]

RECURSIVE powerOf(_, _)
powerOf(value, n) ==
  IF n = 0 THEN U64FromInt(1)
  ELSE U64Times[sqrOf(powerOf(value, n \div 2)),
                IF n % 2 = 0 THEN U64FromInt(1) ELSE value]

\* digitToValue without the + 10 of the upper-case branch
digitToValue_UpperNoOffset(kDigit) ==
  U64FromInt(IF Ord(kDigit) >= Ord("0") /\ Ord(kDigit) <= Ord("9")
             THEN Ord(kDigit) - Ord("0")
             ELSE IF Ord(kDigit) >= Ord("a") /\ Ord(kDigit) <= Ord("f")
                  THEN Ord(kDigit) - Ord("a") + 10
                  ELSE Ord(kDigit) - Ord("A"))

digitToValue(kDigit) ==
  U64FromInt(IF Ord(kDigit) >= Ord("0") /\ Ord(kDigit) <= Ord("9")
             THEN Ord(kDigit) - Ord("0")
             ELSE IF Ord(kDigit) >= Ord("a") /\ Ord(kDigit) <= Ord("f")
                  THEN Ord(kDigit) - Ord("a") + 10
                  ELSE Ord(kDigit) - Ord("A") + 10)

RECURSIVE ParseIntegerValue(_, _)
ParseIntegerValue(kRadix, kDigits) ==
  IF Len(kDigits) = 1
  THEN digitToValue(kDigits[1])
  ELSE U64Plus[U64Times[digitToValue(Head(kDigits)),
                        powerOf(U64FromInt(kRadix), Len(Tail(kDigits)))],
               ParseIntegerValue(kRadix, Tail(kDigits))]

\* the templates without the specialisation for 0B
ParseBaseUnknownTemplates_NoUpperB ==
  { [fixed |-> <<>>,         radix |-> 10],
    [fixed |-> <<"0">>,      radix |-> 8],
    [fixed |-> <<"0", "b">>, radix |-> 2],
    [fixed |-> <<"0", "x">>, radix |-> 16],
    [fixed |-> <<"0", "X">>, radix |-> 16] }

\* The primary template and its five partial specialisations: the leading
\* characters each one fixes, and the radix it hands to ParseIntegerValue.
ParseBaseUnknownTemplates ==
  { [fixed |-> <<>>,         radix |-> 10],
    [fixed |-> <<"0">>,      radix |-> 8],
    [fixed |-> <<"0", "b">>, radix |-> 2],
    [fixed |-> <<"0", "B">>, radix |-> 2],
    [fixed |-> <<"0", "x">>, radix |-> 16],
    [fixed |-> <<"0", "X">>, radix |-> 16] }

TemplateMatches(t, kDigits) ==
  /\ Len(t.fixed) <= Len(kDigits)
  /\ SubSeq(kDigits, 1, Len(t.fixed)) = t.fixed

\* Partial ordering picks the most specialised matching template.
SelectedTemplate(kDigits) ==
  CHOOSE t \in ParseBaseUnknownTemplates :
    /\ TemplateMatches(t, kDigits)
    /\ \A o \in ParseBaseUnknownTemplates :
         TemplateMatches(o, kDigits) => Len(o.fixed) <= Len(t.fixed)

ParseBaseUnknown(kDigits) ==
  LET t == SelectedTemplate(kDigits)
  IN  ParseIntegerValue(t.radix, SubSeq(kDigits, Len(t.fixed) + 1, Len(kDigits)))

createValue(kDigits) ==
  IF Len(kDigits) > 1
  THEN ParseBaseUnknown(kDigits)
  ELSE ParseIntegerValue(10, kDigits)

-----------------------------------------------------------------------------
(* The target types and checkValid_<type>, lines 139-155; the literal      *)
(* operators, lines 162-177.                                               *)

VARIABLES
  digits,      \* template <char... digits>: the characters of the literal
  suffix,      \* the ud-suffix written after them
  sizeBits,    \* width of size_t on the platform the header is compiled for
  pc,          \* "literal" before the operator is instantiated, then
               \* "constant" (a value was produced) or "error" (static_assert)
  kValue,      \* template <u64 kValue>: the accumulator handed to checkValid
  result,      \* the typed constant the operator returns
  diagnostic   \* the static_assert message of a rejected literal

vars == <<digits, suffix, sizeBits, pc, kValue, result, diagnostic>>

Suffixes == {"_u8", "_u16", "_u32", "_u64", "_i8", "_i16", "_i32", "_i64", "_z"}

\* SCW_DEFINE_INTEGER_OPERATOR(typesuffix_, typename_)
OperatorType(typesuffix_) ==
  CASE typesuffix_ = "_u8"  -> "uint8_t"
    [] typesuffix_ = "_u16" -> "uint16_t"
    [] typesuffix_ = "_u32" -> "uint32_t"
    [] typesuffix_ = "_u64" -> "uint64_t"
    [] typesuffix_ = "_i8"  -> "int8_t"
    [] typesuffix_ = "_i16" -> "int16_t"
    [] typesuffix_ = "_i32" -> "int32_t"
    [] typesuffix_ = "_i64" -> "int64_t"
    [] typesuffix_ = "_z"   -> "size_t"

Types == {OperatorType(s) : s \in Suffixes}

SignedTypes == {"int8_t", "int16_t", "int32_t", "int64_t"}

\* width in bits of a target type (<cstdint>, <cstddef>)
TypeBits(typename_) ==
  CASE typename_ \in {"uint8_t", "int8_t"}   -> 8
    [] typename_ \in {"uint16_t", "int16_t"} -> 16
    [] typename_ \in {"uint32_t", "int32_t"} -> 32
    [] typename_ \in {"uint64_t", "int64_t"} -> 64
    [] typename_ = "size_t"                  -> sizeBits

\* the maximum of the unsigned type of the same width, for every type
numeric_limits_max_Unsigned(typename_) ==
  [k \in 1..U64Limbs |->
     IF k <= TypeBits(typename_) \div 8 THEN LimbBase - 1 ELSE 0]

\* std::numeric_limits<typename_>::max(), converted to u64 for the comparison
numeric_limits_max(typename_) ==
  LET n == TypeBits(typename_) \div 8
  IN  [k \in 1..U64Limbs |->
         IF k < n THEN LimbBase - 1
         ELSE IF k = n
              THEN (IF typename_ \in SignedTypes THEN (LimbBase \div 2) - 1
                    ELSE LimbBase - 1)
              ELSE 0]

\* static_cast<typename_>(kValue): the low bytes of the accumulator
static_cast(typename_, value) ==
  [type |-> typename_, bytes |-> SubSeq(value, 1, TypeBits(typename_) \div 8)]

\* The errorMessage_ of each SCW_DEFINE_CHECK_VALID_FUNC line, word by word.
MinNote(t) ==
  <<"Note", "that", "the", "value", "of", "numeric_limits<" \o t \o ">::min()",
    "is", "not", "supported">>

errorMessage(typename_) ==
  CASE typename_ = "uint8_t"  -> <<"uint8", "literal", "out", "of", "range.">>
    [] typename_ = "uint16_t" -> <<"uint16", "literal", "out", "of", "range.">>
    [] typename_ = "uint32_t" -> <<"uint32", "literal", "out", "of", "range.">>
    [] typename_ = "uint64_t" -> <<"uint64", "literal", "can't", "be", "out", "of", "range!">>
    [] typename_ = "int8_t"   -> <<"int8", "literal", "out", "of", "range.">> \o MinNote("int8")
    [] typename_ = "int16_t"  -> <<"int16", "literal", "out", "of", "range.">> \o MinNote("int16")
    [] typename_ = "int32_t"  -> <<"int8", "literal", "out", "of", "range.">> \o MinNote("int32")
    [] typename_ = "int64_t"  -> <<"int64", "literal", "out", "of", "range.">> \o MinNote("int64")
    [] typename_ = "size_t"   -> <<"size_t", "literal", "out", "of", "range.">>

NoResult == [type |-> "none", bytes |-> <<>>]

NoMessage == <<>>

\* the assertion with the accumulator compared against the u64 maximum
StaticAssertHolds_U64Max(typename_, value) ==
  U64LessEq(value, [k \in 1..U64Limbs |-> LimbBase - 1])

\* static_assert(kValue <= std::numeric_limits<typename_>::max(), errorMessage_)
StaticAssertHolds(typename_, value) ==
  U64LessEq(value, numeric_limits_max(typename_))

\* checkValid_<typename_><kValue>(): the constant, or the failed assertion
checkValid(typename_, value) ==
  IF StaticAssertHolds(typename_, value)
  THEN [ok |-> TRUE, value |-> static_cast(typename_, value), message |-> NoMessage]
  ELSE [ok |-> FALSE, value |-> NoResult, message |-> errorMessage(typename_)]

-----------------------------------------------------------------------------
(* Unbounded naturals: limb sequences, least significant first, no zero    *)
(* limb at the top (zero is the empty sequence).                           *)

RECURSIVE BigTrim(_)
BigTrim(v) ==
  IF v = <<>> THEN <<>>
  ELSE IF v[Len(v)] = 0 THEN BigTrim(SubSeq(v, 1, Len(v) - 1))
  ELSE v

\* a + b + c, c a carry
RECURSIVE BigAddCarry(_, _, _)
BigAddCarry(a, b, c) ==
  IF a = <<>> /\ b = <<>>
  THEN (IF c = 0 THEN <<>> ELSE <<c>>)
  ELSE LET x == IF a = <<>> THEN 0 ELSE Head(a)
           y == IF b = <<>> THEN 0 ELSE Head(b)
           t == x + y + c
       IN  <<t % LimbBase>> \o
           BigAddCarry(IF a = <<>> THEN <<>> ELSE Tail(a),
                       IF b = <<>> THEN <<>> ELSE Tail(b),
                       t \div LimbBase)

BigAdd(a, b) == BigTrim(BigAddCarry(a, b, 0))

\* v * m + c for a small multiplier m and carry c
RECURSIVE BigMulSmallCarry(_, _, _)
BigMulSmallCarry(v, m, c) ==
  IF v = <<>>
  THEN (IF c = 0 THEN <<>>
        ELSE <<c % LimbBase>> \o BigMulSmallCarry(<<>>, m, c \div LimbBase))
  ELSE LET t == Head(v) * m + c
       IN  <<t % LimbBase>> \o BigMulSmallCarry(Tail(v), m, t \div LimbBase)

BigMulSmall(v, m) == BigTrim(BigMulSmallCarry(v, m, 0))

\* quotient (untrimmed) and remainder of v by a small divisor m
RECURSIVE BigDivSmall(_, _)
BigDivSmall(v, m) ==
  IF v = <<>> THEN [q |-> <<>>, rem |-> 0]
  ELSE LET hi == BigDivSmall(Tail(v), m)
           t  == hi.rem * LimbBase + Head(v)
       IN  [q |-> <<t \div m>> \o hi.q, rem |-> t % m]

RECURSIVE BigLessEqFrom(_, _, _)
BigLessEqFrom(a, b, k) ==
  IF k = 0 THEN TRUE
  ELSE IF a[k] < b[k] THEN TRUE
  ELSE IF a[k] > b[k] THEN FALSE
  ELSE BigLessEqFrom(a, b, k - 1)

BigLessEq(a, b) ==
  \/ Len(a) < Len(b)
  \/ Len(a) = Len(b) /\ BigLessEqFrom(a, b, Len(a))

\* the natural number a u64 holds
BigOfU64(v) == BigTrim(v)

\* n mod 2^64, as a u64
BigModU64(v) == [k \in 1..U64Limbs |-> IF k <= Len(v) THEN v[k] ELSE 0]

\* 2^k and 2^k - 1
BigPow2(k) == [i \in 1..(k \div 8) |-> 0] \o <<2 ^ (k % 8)>>

BigOnes(k) == BigTrim([i \in 1..(k \div 8) |-> LimbBase - 1] \o <<2 ^ (k % 8) - 1>>)

-----------------------------------------------------------------------------
(* What a literal denotes in C++ ([lex.icon]): the reference the program   *)
(* is compared with.                                                       *)

HexLowers == SubSeq(Lowers, 1, 6)
HexUppers == SubSeq(Uppers, 1, 6)

\* value of a digit character; 16, a digit of no radix, for any other
StdDigit(c) ==
  IF InSeq(Decimals, c) THEN IndexOf(Decimals, c) - 1
  ELSE IF InSeq(HexLowers, c) THEN 9 + IndexOf(HexLowers, c)
  ELSE IF InSeq(HexUppers, c) THEN 9 + IndexOf(HexUppers, c)
  ELSE 16

HasPrefix(s, letters) == Len(s) >= 2 /\ s[1] = "0" /\ s[2] \in letters

LexRadix(s) ==
  IF HasPrefix(s, {"b", "B"}) THEN 2
  ELSE IF HasPrefix(s, {"x", "X"}) THEN 16
  ELSE IF s[1] = "0" THEN 8
  ELSE 10

\* the digit sequence: what follows 0b or 0x; the leading 0 of an octal
\* literal is itself a digit
LexBody(s) == IF LexRadix(s) \in {2, 16} THEN SubSeq(s, 3, Len(s)) ELSE s

IsSeparator(c) == c = "'"

StripSeparators(s) == SelectSeq(s, LAMBDA c : ~IsSeparator(c))

\* every character is a digit of the radix
ValidDigits(r, s) == \A i \in 1..Len(s) : StdDigit(s[i]) < r

\* prefix and digits only
IsPlainIntegerLiteral(s) ==
  /\ LexBody(s) # <<>>
  /\ ValidDigits(LexRadix(s), LexBody(s))

\* an integer-literal, digit separators allowed between digits
IsIntegerLiteral(s) ==
  LET b == LexBody(s)
  IN  /\ b # <<>>
      /\ ~IsSeparator(b[1])
      /\ ~IsSeparator(b[Len(b)])
      /\ \A i \in 1..(Len(b) - 1) : ~(IsSeparator(b[i]) /\ IsSeparator(b[i + 1]))
      /\ ValidDigits(LexRadix(s), StripSeparators(b))

RECURSIVE BigHorner(_, _, _)
BigHorner(r, ds, v) ==
  IF ds = <<>> THEN v
  ELSE BigHorner(r, Tail(ds), BigTrim(BigMulSmallCarry(v, r, StdDigit(Head(ds)))))

\* the mathematical value of an integer literal
MathValue(s) == BigHorner(LexRadix(s), StripSeparators(LexBody(s)), <<>>)

-----------------------------------------------------------------------------
(* The literals the operators are applied to.                              *)

\* all sequences over S of length 1..n
Strings(S, n) == UNION {[1..k -> S] : k \in 1..n}

Radixes == {2, 8, 10, 16}

Prefixes(r) ==
  CASE r = 2  -> {<<"0", "b">>, <<"0", "B">>}
    [] r = 8  -> {<<"0">>}
    [] r = 10 -> {<<>>}
    [] r = 16 -> {<<"0", "x">>, <<"0", "X">>}

SampleDigits(r) ==
  CASE r = 2  -> {"0", "1"}
    [] r = 8  -> {"0", "3", "7"}
    [] r = 10 -> {"0", "1", "9"}
    [] r = 16 -> {"0", "7", "a", "F"}

\* every literal with at most MaxLen sample digits after its prefix
ShortLiterals ==
  {<<"0">>} \cup
  UNION {{p \o b : p \in Prefixes(r),
                   b \in {x \in Strings(SampleDigits(r), MaxLen) :
                            r = 10 => x[1] # "0"}} : r \in Radixes}

DigitChar(d, upper) ==
  IF d < 10 THEN Decimals[d + 1]
  ELSE IF upper THEN HexUppers[d - 9] ELSE HexLowers[d - 9]

\* the digits of v > 0 in radix r, most significant first
RECURSIVE ToRadix(_, _, _)
ToRadix(v, r, upper) ==
  IF v = <<>> THEN <<>>
  ELSE LET d == BigDivSmall(v, r)
       IN  ToRadix(BigTrim(d.q), r, upper) \o <<DigitChar(d.rem, upper)>>

\* 2^k - 1 and 2^k for a target type of k or k + 1 bits: the largest value of
\* the type and the value after it.  Binary literals stop at 33 digits.
BinaryExponents == {7, 8, 15, 16, 31, 32}

Exponents(r) == IF r = 2 THEN BinaryExponents ELSE BinaryExponents \cup {63, 64}

\* values that do not fit 64 bits
WideValues ==
  {BigAdd(BigPow2(64), <<241>>), BigAdd(BigPow2(64), BigOnes(7)),
   BigAdd(BigPow2(64), BigPow2(8)), BigOnes(68), BigPow2(72)}

BoundaryValues(r) ==
  UNION {{BigOnes(k), BigPow2(k)} : k \in Exponents(r)}
  \cup (IF r = 2 THEN {} ELSE WideValues)

BoundaryPrefix(r) ==
  CASE r = 2  -> <<"0", "b">>
    [] r = 8  -> <<"0">>
    [] r = 10 -> <<>>
    [] r = 16 -> <<"0", "x">>

BoundaryLiterals ==
  {BoundaryPrefix(rv[1]) \o ToRadix(rv[2], rv[1], u) :
     rv \in UNION {{<<r, v>> : v \in BoundaryValues(r)} : r \in Radixes},
     u \in BOOLEAN}

\* the literals of src/TestMain.cpp and of the header's examples
TestLiterals ==
  { <<"0","b","1","0","1">>, <<"0","1","0","1">>, <<"1","0","1">>,
    <<"0","x","f","e","F","1">>, <<"0","X","f","e","F","1">>,
    <<"0","x","F","E","F","1">>,
    <<"1","0","0">>, <<"5","0">>, <<"0","x","F","F">>,
    <<"0","b","1","1","1","0","1","0","1">>,
    <<"0","x","f","f","e","e","f","f","d","d","0","0","1","2","3","4","5">>,
    <<"0","7","7","6","6","5","5","4","4","3","3">>,
    <<"0","b","1","1","1","1","1","1","1","1","1">>,
    <<"1","1","1","1","1","1">>, <<"2","5","7">>,
    <<"0","x","f","f","0","1">>,
    <<"0","x","f","f","f","f","1","2","3","4","5">> }

\* integer literals with digit separators ([lex.icon], C++14)
SeparatedLiterals ==
  { <<"1","'","0","0","0">>, <<"2","'","0","0">>, <<"1","'","0">>,
    <<"0","x","F","F","'","F","F">>, <<"0","b","1","'","0">>,
    <<"0","'","7">> }

\* floating literals ([lex.fcon]); with no operator taking long double the
\* literal operator template receives their characters as well ([lex.ext])
FloatingLiterals ==
  { <<"1","e","1">>, <<"1","E","1">>, <<"1",".","5">>, <<"0",".","5">>,
    <<".","5">>, <<"1","e","+","1">>, <<"2","e","-","1">>,
    <<"0","x","1","p","3">>, <<"0","x","1","P","3">> }

Literals ==
  ShortLiterals \cup BoundaryLiterals \cup TestLiterals
  \cup SeparatedLiterals \cup FloatingLiterals

\* size_t is 32 or 64 bits wide
SizeBits == {32, 64}

-----------------------------------------------------------------------------
(* The state machine: one literal token, one instantiation of its          *)
(* operator.                                                               *)

Init ==
  /\ digits \in Literals
  /\ suffix \in Suffixes
  \* only the _z operator reads the width of size_t
  /\ sizeBits \in (IF suffix = "_z" THEN SizeBits ELSE {64})
  /\ pc = "literal"
  /\ kValue = U64Zero
  /\ result = NoResult
  /\ diagnostic = NoMessage

\* operator"" typesuffix_<digits...>():
\*   return detail::checkValid_<typename_><detail::createValue<digits...>()>();
LiteralOperator(typesuffix_, typename_) ==
  /\ pc = "literal"
  /\ suffix = typesuffix_
  /\ LET value == createValue(digits)
         checked == checkValid(typename_, value)
     IN  /\ kValue' = value
         /\ pc' = IF checked.ok THEN "constant" ELSE "error"
         /\ result' = checked.value
         /\ diagnostic' = checked.message
  /\ UNCHANGED <<digits, suffix, sizeBits>>

Next == \E s \in Suffixes : LiteralOperator(s, OperatorType(s))

Spec == Init /\ [][Next]_vars

-----------------------------------------------------------------------------
(* Vocabulary of the properties.                                           *)

Done == pc \in {"constant", "error"}
Accepted == pc = "constant"
Rejected == pc = "error"

\* the target type each suffix is documented to give
DocumentedType ==
  [s \in Suffixes |->
     CASE s = "_u8" -> "uint8_t" [] s = "_u16" -> "uint16_t"
       [] s = "_u32" -> "uint32_t" [] s = "_u64" -> "uint64_t"
       [] s = "_i8" -> "int8_t" [] s = "_i16" -> "int16_t"
       [] s = "_i32" -> "int32_t" [] s = "_i64" -> "int64_t"
       [] s = "_z" -> "size_t"]

TargetType == DocumentedType[suffix]

\* w, the width of a type in bits
Width(t) ==
  CASE t \in {"uint8_t", "int8_t"} -> 8
    [] t \in {"uint16_t", "int16_t"} -> 16
    [] t \in {"uint32_t", "int32_t"} -> 32
    [] t \in {"uint64_t", "int64_t"} -> 64
    [] t = "size_t" -> sizeBits

IsSignedType(t) == t \in {"int8_t", "int16_t", "int32_t", "int64_t"}

\* max(target type): 2^(w-1) - 1 for a signed type, 2^w - 1 for an unsigned
MaxOf(t) == IF IsSignedType(t) THEN BigOnes(Width(t) - 1) ELSE BigOnes(Width(t))

\* the number a typed constant holds, when it is not negative
IsNegative(c) == IsSignedType(c.type) /\ c.bytes[Len(c.bytes)] >= LimbBase \div 2

Magnitude(c) == BigTrim(c.bytes)

\* the radix and the digit characters the base-detection rules give
RuleRadix(s) ==
  IF Len(s) = 1 THEN 10
  ELSE IF s[1] = "0" /\ s[2] \in {"b", "B"} THEN 2
  ELSE IF s[1] = "0" /\ s[2] \in {"x", "X"} THEN 16
  ELSE IF s[1] = "0" THEN 8
  ELSE 10

RuleDigits(s) ==
  IF Len(s) = 1 THEN s
  ELSE IF s[1] = "0" /\ s[2] \in {"b", "B", "x", "X"} THEN SubSeq(s, 3, Len(s))
  ELSE IF s[1] = "0" THEN SubSeq(s, 2, Len(s))
  ELSE s

\* sum over i of value(d_i) * r^(n-i) as a natural number, value(d) being
\* the u64 digitToValue gives the character
RECURSIVE PositionalSum(_, _, _)
PositionalSum(r, ds, v) ==
  IF ds = <<>> THEN v
  ELSE PositionalSum(r, Tail(ds),
                     BigAdd(BigMulSmall(v, r), BigOfU64(digitToValue(Head(ds)))))

-----------------------------------------------------------------------------
\* C3: createValue picks the radix from the leading characters only: 0b/0B
\* gives radix 2 and 0x/0X radix 16 over the characters after the prefix, any
\* other leading 0 radix 8 over the characters after the 0, anything else
\* radix 10 over all characters; a single character is parsed as radix 10 and
\* yields its digit value.
C3_RadixFromPrefix ==
  Done =>
    /\ kValue = ParseIntegerValue(RuleRadix(digits), RuleDigits(digits))
    /\ Len(digits) = 1 => kValue = U64FromInt(StdDigit(digits[1]))

\* 0B11 went through the operator and was read as binary 3, not octal
C3_Witness ==
  /\ Done
  /\ digits = <<"0", "B", "1", "1">>
  /\ kValue = U64FromInt(3)

\* C4: each suffix yields a constant of its own target type, and for every
\* accepted literal the narrowing cast is lossless: the constant is not
\* negative, equals the accumulator, and lies in 0..max(target type).
C4_TypedLosslessCast ==
  Accepted =>
    /\ result.type = TargetType
    /\ Len(result.bytes) * 8 = Width(TargetType)
    /\ ~IsNegative(result)
    /\ Magnitude(result) = BigOfU64(kValue)
    /\ BigLessEq(Magnitude(result), MaxOf(TargetType))

\* 0xFF_u8 was accepted as the uint8_t 255
C4_Witness ==
  /\ Accepted
  /\ digits = <<"0", "x", "F", "F">>
  /\ suffix = "_u8"
  /\ result = [type |-> "uint8_t", bytes |-> <<255>>]

C7_SignedRange ==
  (Done /\ IsSignedType(TargetType)) =>
    /\ Accepted <=> BigLessEq(BigOfU64(kValue), BigOnes(Width(TargetType) - 1))
    /\ BigOfU64(kValue) = BigPow2(Width(TargetType) - 1) => Rejected
    /\ Accepted => ~IsNegative(result)

\* 128_i8 was rejected
C7_Witness ==
  /\ Rejected
  /\ digits = <<"1", "2", "8">>
  /\ suffix = "_i8"
  /\ kValue = U64FromInt(128)

\* the other-case form of a letter
OtherCase(c) ==
  IF InSeq(Lowers, c) THEN Uppers[IndexOf(Lowers, c)]
  ELSE IF InSeq(Uppers, c) THEN Lowers[IndexOf(Uppers, c)]
  ELSE c

\* positions holding a hexadecimal digit letter, or the x, X, b, B of a prefix
CaseSwappable(s) ==
  {i \in 1..Len(s) :
     \/ InSeq(HexLowers, s[i]) \/ InSeq(HexUppers, s[i])
     \/ i = 2 /\ s[1] = "0" /\ s[2] \in {"x", "X", "b", "B"}}

SwapCaseAt(s, i) == [s EXCEPT ![i] = OtherCase(s[i])]

\* C8: digitToValue maps 0-9 to 0..9 and a-f, A-F to 10..15, and replacing a
\* hexadecimal digit letter or a prefix letter by its other-case form changes
\* neither the parsed value nor whether the literal is accepted.
C8_CaseInsensitive ==
  /\ \A d \in 0..9 : digitToValue(Decimals[d + 1]) = U64FromInt(d)
  /\ \A d \in 1..6 : /\ digitToValue(HexLowers[d]) = U64FromInt(9 + d)
                     /\ digitToValue(HexUppers[d]) = U64FromInt(9 + d)
  /\ Done =>
       \A i \in CaseSwappable(digits) :
         LET swapped == createValue(SwapCaseAt(digits, i))
         IN  /\ swapped = kValue
             /\ checkValid(OperatorType(suffix), swapped).ok = Accepted

\* 0XfeF1_u32 was accepted as 0xFEF1, like 0xfeF1 and 0xFEF1
C8_Witness ==
  /\ Accepted
  /\ digits = <<"0", "X", "f", "e", "F", "1">>
  /\ suffix = "_u32"
  /\ result.bytes = <<241, 254, 0, 0>>
  /\ createValue(<<"0", "x", "f", "e", "F", "1">>) = kValue
  /\ createValue(<<"0", "x", "F", "E", "F", "1">>) = kValue

-----------------------------------------------------------------------------
(* Statements the header does not keep.                                    *)

\* C1: a literal whose mathematical value exceeds the maximum of the suffix's
\* target type is rejected and no constant is produced.
C1_OutOfRangeRejected ==
  (Done /\ IsIntegerLiteral(digits)
        /\ ~BigLessEq(MathValue(digits), MaxOf(TargetType))) =>
    /\ Rejected
    /\ result = NoResult

\* C2: the value of an accepted literal is the value its digit text denotes,
\* the sum over i of value(d_i) * r^(n-i).
C2_ValueIsPositionalSum ==
  (Accepted /\ IsPlainIntegerLiteral(digits)) =>
    /\ ~IsNegative(result)
    /\ Magnitude(result) = MathValue(digits)

\* C5: a literal of value v with 0 <= v <= max(target type) is accepted and
\* returns v, and v = max(target type) + 1 is rejected.
C5_InRangeAcceptedNextRejected ==
  (Done /\ IsPlainIntegerLiteral(digits)) =>
    /\ BigLessEq(MathValue(digits), MaxOf(TargetType)) =>
         Accepted /\ ~IsNegative(result) /\ Magnitude(result) = MathValue(digits)
    /\ MathValue(digits) = BigAdd(MaxOf(TargetType), <<1>>) => Rejected

\* C9: every character after the base prefix is a digit of the detected
\* radix, or else the literal is rejected.
C9_OnlyValidDigitsAccepted ==
  Accepted => ValidDigits(RuleRadix(digits), RuleDigits(digits))

\* the name each target type goes by in its diagnostic
DiagnosticName(t) ==
  CASE t = "uint8_t" -> "uint8" [] t = "uint16_t" -> "uint16"
    [] t = "uint32_t" -> "uint32" [] t = "uint64_t" -> "uint64"
    [] t = "int8_t" -> "int8" [] t = "int16_t" -> "int16"
    [] t = "int32_t" -> "int32" [] t = "int64_t" -> "int64"
    [] t = "size_t" -> "size_t"

\* C10: the diagnostic of a rejected literal names the target type that
\* rejected it.
C10_DiagnosticNamesType ==
  (Rejected /\ IsPlainIntegerLiteral(digits)) =>
    Head(diagnostic) = DiagnosticName(TargetType)

====
